---- MODULE Spec2Model ----
(***************************************************************************)
(* A model of the form-submission service of src/main.py: the origin guard *)
(* (is_domain_allowed over urllib's urlparse), the CAPTCHA verifiers, the  *)
(* form registry, the template renderer, the mail dispatcher and the       *)
(* submit_form pipeline that orchestrates them.                            *)
(*                                                                         *)
(* Python strings whose characters matter (origins, hostnames, domains,    *)
(* field values) are sequences of one-character strings.  Optional[str] is *)
(* a sequence of length at most one: <<>> is None, <<s>> is the string s.  *)
(***************************************************************************)
EXTENDS Integers, Sequences, FiniteSets, TLC

VARIABLES
    ALLOWED_DOMAINS_ENV,   \* os.getenv("ALLOWED_DOMAINS", "")
    TURNSTILE_SECRET_KEY,  \* Optional[str]
    RECAPTCHA_SECRET_KEY,  \* Optional[str]
    ALLOWED_DOMAINS,       \* the list built at line 51
    captcha_provider,      \* Optional[str], lines 58-70
    forms_db,              \* the module global FORMS_DB, lines 80-99
    form_id,               \* submit_form's path parameter
    submission,            \* the DynamicFormSubmission of the request
    header_origin,         \* request.headers.get("origin", "")
    pc,                    \* position of the handler
    origin,                \* the local of line 272 (the argument of the guard)
    guard,                 \* what the last is_domain_allowed call did
    is_valid,              \* the local of lines 278-282
    verify_response,       \* what the provider's API answered, once it has
    rendered,              \* the (subject, body) of line 303
    smtp_outcome,          \* what the relay did in send_email, once called
    steps,                 \* the pipeline steps executed so far, in order
    verify_requests,       \* outbound verification requests, in order
    send_calls,            \* number of send_email invocations
    mails,                 \* messages the relay accepted, in order
    log,                   \* logger records, in order
    outcome,               \* the response of the handler
    frames,                \* the other submit_form calls in flight, suspended
    call,                  \* the arguments the running handler was called with
    listing                \* what the last list_forms call returned

config == <<ALLOWED_DOMAINS_ENV, TURNSTILE_SECRET_KEY, RECAPTCHA_SECRET_KEY,
            ALLOWED_DOMAINS, captcha_provider, forms_db>>

request == <<form_id, submission, header_origin>>

others == <<frames, call, listing>>

vars == <<config, request, pc, origin, guard, is_valid, verify_response, rendered,
          smtp_outcome, steps, verify_requests, send_calls, mails, log, outcome,
          others>>

-----------------------------------------------------------------------------
(* Bounds of the model. *)

\* Longest host part of an enumerated origin string.
MaxHostLen == 3

\* Most fields a submission's data may lack, out of all the registry's fields.
MaxMissing == 2

\* Number of submit_form calls in flight at once in the concurrent executions.
MaxInFlight == 2

-----------------------------------------------------------------------------
(* Python str operations, on sequences of characters. *)

LOWER == <<"a","b","c","d","e","f","g","h","i","j","k","l","m",
           "n","o","p","q","r","s","t","u","v","w","x","y","z">>
UPPER == <<"A","B","C","D","E","F","G","H","I","J","K","L","M",
           "N","O","P","Q","R","S","T","U","V","W","X","Y","Z">>
DIGITS == {"0","1","2","3","4","5","6","7","8","9"}

Range(s) == {s[i] : i \in 1..Len(s)}

\* c.isascii() and c.isalpha()
IsAsciiAlpha(c) == c \in Range(LOWER) \cup Range(UPPER)

\* str.lower() of one character
LowerChar(c) ==
    IF c \in Range(UPPER)
    THEN LOWER[CHOOSE i \in 1..Len(UPPER) : UPPER[i] = c]
    ELSE c

\* str.upper() of one character
UpperChar(c) ==
    IF c \in Range(LOWER)
    THEN UPPER[CHOOSE i \in 1..Len(LOWER) : LOWER[i] = c]
    ELSE c

\* s.lower()
StrLower(s) == [i \in 1..Len(s) |-> LowerChar(s[i])]

\* s.upper()
StrUpper(s) == [i \in 1..Len(s) |-> UpperChar(s[i])]

\* s.find(c) + 1: the first position of c in s, 0 when there is none
Find(s, c) ==
    IF \E i \in 1..Len(s) : s[i] = c
    THEN CHOOSE i \in 1..Len(s) : s[i] = c /\ \A j \in 1..(i - 1) : s[j] # c
    ELSE 0

\* s.rfind(c) + 1
RFind(s, c) ==
    IF \E i \in 1..Len(s) : s[i] = c
    THEN CHOOSE i \in 1..Len(s) : s[i] = c /\ \A j \in (i + 1)..Len(s) : s[j] # c
    ELSE 0

\* s[i-1:] in Python terms: the characters from position i on
From(s, i) == SubSeq(s, i, Len(s))

\* s.partition(c)[0]
Before(s, c) == IF Find(s, c) = 0 THEN s ELSE SubSeq(s, 1, Find(s, c) - 1)

\* s.partition(c)[2]
After(s, c) == IF Find(s, c) = 0 THEN <<>> ELSE From(s, Find(s, c) + 1)

\* s.rpartition(c)[2]
AfterLast(s, c) == IF RFind(s, c) = 0 THEN s ELSE From(s, RFind(s, c) + 1)

\* s.endswith(suffix)
EndsWith(s, suffix) ==
    /\ Len(suffix) <= Len(s)
    /\ SubSeq(s, Len(s) - Len(suffix) + 1, Len(s)) = suffix

WHITESPACE == {" ", "\t", "\n", "\r"}

\* s.lstrip() / s.rstrip() / s.strip() of whitespace
RECURSIVE LStrip(_)
LStrip(s) == IF s # <<>> /\ Head(s) \in WHITESPACE THEN LStrip(Tail(s)) ELSE s

RECURSIVE RStrip(_)
RStrip(s) ==
    IF s # <<>> /\ s[Len(s)] \in WHITESPACE
    THEN RStrip(SubSeq(s, 1, Len(s) - 1))
    ELSE s

Strip(s) == LStrip(RStrip(s))

\* s.split(sep): never the empty list, "".split(",") is [""]
RECURSIVE Split(_, _)
Split(s, sep) ==
    IF Find(s, sep) = 0
    THEN <<s>>
    ELSE <<SubSeq(s, 1, Find(s, sep) - 1)>> \o Split(From(s, Find(s, sep) + 1), sep)

-----------------------------------------------------------------------------
(* urllib.parse.urlparse, as far as is_domain_allowed reads its result: the *)
(* netloc and the hostname property, and the ValueError of a netloc with an *)
(* unbalanced bracket.  The origins of this model hold no "]", so a netloc  *)
(* never holds a bracketed host literal.                                    *)

scheme_chars == Range(LOWER) \cup Range(UPPER) \cup DIGITS \cup {"+", "-", "."}

UNSAFE_URL_BYTES_TO_REMOVE == {"\t", "\r", "\n"}

NETLOC_DELIMS == {"/", "?", "#"}

\* url.lstrip(_WHATWG_C0_CONTROL_OR_SPACE), then the unsafe bytes removed
UrlClean(url) ==
    LET keep(c) == c \notin UNSAFE_URL_BYTES_TO_REMOVE
    IN  SelectSeq(LStrip(url), keep)

\* the url after "scheme:" has been taken off, when there is a scheme
AfterScheme(url) ==
    LET i == Find(url, ":")
    IN  IF /\ i > 1
           /\ IsAsciiAlpha(url[1])
           /\ \A k \in 1..(i - 1) : url[k] \in scheme_chars
        THEN From(url, i + 1)
        ELSE url

\* _splitnetloc(url, 2)[0] when url starts with "//", else ""
NetlocOf(url) ==
    IF Len(url) >= 2 /\ url[1] = "/" /\ url[2] = "/"
    THEN LET ends == {i \in 3..Len(url) : url[i] \in NETLOC_DELIMS}
             delim == IF ends = {} THEN Len(url) + 1
                      ELSE CHOOSE i \in ends : \A j \in ends : i <= j
         IN  SubSeq(url, 3, delim - 1)
    ELSE <<>>

\* urlsplit raises ValueError("Invalid IPv6 URL")
InvalidNetloc(netloc) ==
    \/ "[" \in Range(netloc) /\ "]" \notin Range(netloc)
    \/ "]" \in Range(netloc) /\ "[" \notin Range(netloc)

\* the hostname property: Optional[str]
HostnameOf(netloc) ==
    LET hostinfo == AfterLast(netloc, "@")
        hostname == IF "[" \in Range(hostinfo)
                    THEN Before(After(hostinfo, "["), "]")
                    ELSE Before(hostinfo, ":")
        zone     == IF Find(hostname, "%") = 0 THEN <<>>
                    ELSE From(hostname, Find(hostname, "%"))
    IN  IF hostname = <<>> THEN <<>>
        ELSE << StrLower(Before(hostname, "%")) \o zone >>

\* urlparse(url): [raised, netloc, hostname]
urlparse(url) ==
    LET netloc == NetlocOf(AfterScheme(UrlClean(url)))
    IN  IF InvalidNetloc(netloc)
        THEN [raised |-> TRUE, netloc |-> <<>>, hostname |-> <<>>]
        ELSE [raised |-> FALSE, netloc |-> netloc, hostname |-> HostnameOf(netloc)]

-----------------------------------------------------------------------------
(* Startup configuration, lines 49-70. *)

\* line 51: [d.strip() for d in env.split(",")]
AllowedDomainsOf(env) ==
    LET parts == Split(env, ",")
    IN  [i \in 1..Len(parts) |-> Strip(parts[i])]

\* lines 53-54: the process starts only if this holds
StartupAccepts(domains) == ~(domains = <<>> \/ domains[1] = <<>>)

\* truth value of an Optional[str]
Truthy(opt) == opt # <<>> /\ opt[1] # <<>>

\* CaptchaProviderOf that prefers reCAPTCHA when both keys are set
CaptchaProviderOf_RecaptchaFirst(turnstile_key, recaptcha_key) ==
    IF Truthy(recaptcha_key) THEN <<"recaptcha">>
    ELSE IF Truthy(turnstile_key) THEN <<"turnstile">>
    ELSE <<>>

\* lines 59-70
CaptchaProviderOf(turnstile_key, recaptcha_key) ==
    IF Truthy(turnstile_key) /\ Truthy(recaptcha_key) THEN <<"turnstile">>
    ELSE IF Truthy(turnstile_key) THEN <<"turnstile">>
    ELSE IF Truthy(recaptcha_key) THEN <<"recaptcha">>
    ELSE <<>>

-----------------------------------------------------------------------------
(* Domain validation, lines 212-235. *)

\* DomainMatches without the dot boundary of the suffix
DomainMatches_NoDot(hostname, allowed_domain) ==
    \/ hostname = StrLower(allowed_domain)
    \/ EndsWith(hostname, StrLower(allowed_domain))

\* line 224, for one allow-listed domain
DomainMatches(hostname, allowed_domain) ==
    \/ hostname = StrLower(allowed_domain)
    \/ EndsWith(hostname, <<".">> \o StrLower(allowed_domain))

\* lines 220-221: parsed.hostname or parsed.netloc.split(':')[0], lowered
ExtractHostname(parsed) ==
    StrLower(IF parsed.hostname # <<>> THEN parsed.hostname[1]
             ELSE Split(parsed.netloc, ":")[1])

\* is_domain_allowed(origin) under the allow-list: what it returned, the
\* hostname it evaluated (none when it returned early or caught an exception),
\* whether an exception escaped it, and the level of the record it logged
is_domain_allowed(o, allowed_domains) ==
    IF o = <<>>
    THEN [result |-> FALSE, hostname |-> <<>>, raised |-> FALSE, logged |-> "warning"]
    ELSE LET parsed == urlparse(o) IN
         IF parsed.raised
         THEN [result |-> FALSE, hostname |-> <<>>, raised |-> FALSE, logged |-> "error"]
         ELSE LET hostname == ExtractHostname(parsed)
                  allowed  == \E i \in 1..Len(allowed_domains) :
                                  DomainMatches(hostname, allowed_domains[i])
              IN  [result |-> allowed, hostname |-> <<hostname>>, raised |-> FALSE,
                   logged |-> IF allowed THEN "info" ELSE "warning"]


-----------------------------------------------------------------------------
(* Python values: t is the type, v is str(value) as a character sequence.   *)

PyStr(chars) == [t |-> "str", v |-> chars]
PyNone  == [t |-> "NoneType", v |-> <<"N", "o", "n", "e">>]
PyTrue  == [t |-> "bool", v |-> <<"T", "r", "u", "e">>]
PyFalse == [t |-> "bool", v |-> <<"F", "a", "l", "s", "e">>]
PyOne   == [t |-> "int", v |-> <<"1">>]

\* bool(x), as `not x` and `if x` evaluate it
PyTruthy(x) ==
    CASE x.t = "bool"     -> x = PyTrue
      [] x.t = "str"      -> x.v # <<>>
      [] x.t = "int"      -> x.v # <<"0">>
      [] x.t = "NoneType" -> FALSE

\* data.get(key, default)
DictGet(data, key, default) == IF key \in DOMAIN data THEN data[key] ELSE default

\* the text an f-string puts for {value}
Format(value) == value.v

-----------------------------------------------------------------------------
(* The forms database, lines 80-99. *)

FORMS_DB ==
    [contact |->
        [name |-> "Contact Form",
         recipients |-> <<"info@h190k.com">>,
         fields |-> <<"name", "email", "message", "service_type">>,
         template |-> "contact"],
     support |->
        [name |-> "Support Form",
         recipients |-> <<"support@h190k.com">>,
         fields |-> <<"name", "email", "priority", "issue", "description">>,
         template |-> "support"],
     newsletter |->
        [name |-> "Newsletter Signup",
         recipients |-> <<"newsletter@h190k.com">>,
         fields |-> <<"name", "email">>,
         template |-> "newsletter"]]

-----------------------------------------------------------------------------
(* Email templates, lines 102-137.  A subject is its literal text and the   *)
(* interpolated value; a body is its layout and the interpolated values in  *)
(* the order of the layout.  raised: an exception left the function.        *)

General == <<"G", "e", "n", "e", "r", "a", "l">>
Normal == <<"N", "o", "r", "m", "a", "l">>

BodyOf(layout, data, keys) ==
    [layout |-> layout,
     values |-> [i \in 1..Len(keys) |-> Format(DictGet(data, keys[i], PyNone))]]

NoMessage ==
    [raised |-> FALSE, subject |-> [text |-> "", arg |-> <<>>],
     body |-> [layout |-> "", values |-> <<>>]]

\* get_email_template with the generic rendering for every template
get_email_template_Generic(form_type, data) ==
    [raised |-> FALSE,
     subject |-> [text |-> "New Form Submission", arg |-> <<>>],
     body |-> [layout |-> "generic", values |-> <<>>]]

get_email_template(form_type, data) ==
    IF form_type = "contact"
    THEN [raised |-> FALSE,
          subject |-> [text |-> "New Contact: ",
                       arg |-> Format(DictGet(data, "service_type", PyStr(General)))],
          body |-> BodyOf("contact", data, <<"name", "email", "service_type", "message">>)]
    ELSE IF form_type = "support"
    THEN LET priority == DictGet(data, "priority", PyStr(Normal)) IN
         IF priority.t # "str"
         THEN \* .upper() of a value that is no str: AttributeError
              [NoMessage EXCEPT !.raised = TRUE]
         ELSE [raised |-> FALSE,
               subject |-> [text |-> "Support Ticket - ", arg |-> StrUpper(priority.v)],
               body |-> BodyOf("support", data,
                          <<"name", "email", "priority", "issue", "description">>)]
    ELSE IF form_type = "newsletter"
    THEN [raised |-> FALSE,
          subject |-> [text |-> "New Newsletter Subscriber", arg |-> <<>>],
          body |-> BodyOf("newsletter", data, <<"name", "email">>)]
    ELSE [raised |-> FALSE,
          subject |-> [text |-> "New Form Submission", arg |-> <<>>],
          body |-> [layout |-> "generic", values |-> <<>>]]

-----------------------------------------------------------------------------
(* Email sending, lines 140-160.  smtp is what the relay does in this call: *)
(* the first SMTP operation that raises, or "ok" when none does.            *)

SmtpOutcomes ==
    {"ok", "connect_error", "starttls_error", "auth_error", "login_error",
     "send_message_error", "quit_error"}

\* server.send_message(msg) returned: the relay has accepted the message
RelayAccepted(smtp) == smtp \in {"ok", "quit_error"}

\* send_email(recipients, subject, body): the HTTPException it raises, if any,
\* the message the relay accepted, if any, and the record it logged
send_email(recipients, subject, body, smtp) ==
    [raised |-> smtp # "ok",
     detail |-> IF smtp = "ok" THEN ""
                ELSE IF smtp = "auth_error" THEN "Email service authentication failed"
                ELSE "Failed to send email",
     accepted |-> IF RelayAccepted(smtp)
                  THEN << [to |-> recipients, subject |-> subject, body |-> body] >>
                  ELSE <<>>,
     logged |-> IF smtp = "ok" THEN "info: Email sent"
                ELSE IF smtp = "auth_error" THEN "error: SMTP authentication failed"
                ELSE "error: Email send error"]

-----------------------------------------------------------------------------
(* CAPTCHA verification, lines 163-209.  A response is what the provider's  *)
(* API did with the one request: error is an exception of client.post (a    *)
(* timeout included), body is what response.json() finds, success is the    *)
(* value of the "success" key of a JSON object (<<>> when it has none).     *)

VerifyResponses ==
    { [error |-> TRUE,  status_code |-> 0,   body |-> "none",    success |-> <<>>],
      [error |-> FALSE, status_code |-> 503, body |-> "none",    success |-> <<>>],
      [error |-> FALSE, status_code |-> 200, body |-> "invalid", success |-> <<>>],
      [error |-> FALSE, status_code |-> 200, body |-> "array",   success |-> <<>>] }
    \cup
    { [error |-> FALSE, status_code |-> 200, body |-> "object", success |-> s] :
        s \in { <<>>, <<PyTrue>>, <<PyFalse>>, <<PyNone>>, <<PyOne>>,
                <<PyStr(<<"n", "o">>)>> } }

NoResponse == [error |-> FALSE, status_code |-> 0, body |-> "none", success |-> <<>>]

\* lines 164 and 188: the verifier returns False before any request
VerifySkips(secret_key, token) == ~Truthy(secret_key) \/ ~Truthy(token)

\* lines 177-185 and 201-209: the value returned for a response
VerifyResult(response) ==
    IF response.error THEN PyFalse
    ELSE IF response.status_code # 200 THEN PyFalse
    ELSE IF response.body # "object" THEN PyFalse
    ELSE IF response.success = <<>> THEN PyFalse
    ELSE response.success[1]

\* the record a verifier logs for a response, if any
VerifyLogged(provider, response) ==
    IF response.error \/ (response.status_code = 200 /\ response.body # "object")
    THEN <<"error: " \o provider \o " verification error">>
    ELSE IF response.status_code # 200
    THEN <<"error: " \o provider \o " API error">>
    ELSE <<>>

\* the secret key the verifier of a provider reads
SecretKeyOf(provider, turnstile_key, recaptcha_key) ==
    IF provider = "turnstile" THEN turnstile_key ELSE recaptcha_key

-----------------------------------------------------------------------------
(* The requests of the model. *)

FormIds == {"contact", "support", "newsletter", "unknown"}

AllFields == UNION {Range(FORMS_DB[f].fields) : f \in DOMAIN FORMS_DB}

\* the key sets of data: all the registry's fields but at most MaxMissing
KeySets ==
    {AllFields \ M : M \in {X \in SUBSET AllFields : Cardinality(X) <= MaxMissing}}

\* a non-empty string, the empty string and JSON null
FieldValues == {PyStr(<<"h", "i">>), PyStr(<<>>), PyNone}

DataMaps == {[k \in K |-> v] : K \in KeySets, v \in FieldValues}

\* None, "" and "tok"
CaptchaTokens == { <<>>, << <<>> >>, << <<"t", "o", "k">> >> }

\* None and "sk"
SecretKeys == { <<>>, << <<"s", "k">> >> }

\* "h.co"
PipelineDomainsEnv == <<"h", ".", "c", "o">>

\* "https://W.h.co:8", a subdomain of the allow-listed domain
GoodOrigin ==
    <<"h", "t", "t", "p", "s", ":", "/", "/", "W", ".", "h", ".", "c", "o", ":", "8">>

\* "https://evilh.co", which only ends with the allow-listed domain
EvilOrigin ==
    <<"h", "t", "t", "p", "s", ":", "/", "/", "e", "v", "i", "l", "h", ".", "c", "o">>

\* submission.origin: None, "", and the two origins
DeclaredOrigins == { <<>>, << <<>> >>, <<GoodOrigin>>, <<EvilOrigin>> }

\* the Origin header: absent (read as ""), and the two origins
HeaderOrigins == { <<>>, GoodOrigin, EvilOrigin }

\* the bodies handed to submit_form for a form id: the body's form_id is the
\* form id of the call, as POST /submit makes it (line 318)
Submissions(path_form_id) ==
    [form_id : {path_form_id}, data : DataMaps,
     captcha_token : CaptchaTokens, origin : DeclaredOrigins]

-----------------------------------------------------------------------------
(* submit_form, lines 269-314, one action per step of the handler. *)

NoGuard == [result |-> FALSE, hostname |-> <<>>, raised |-> FALSE, logged |-> "none"]

NoOutcome == [status |-> 0, detail |-> "", field |-> ""]

Init ==
    /\ ALLOWED_DOMAINS_ENV = PipelineDomainsEnv
    /\ ALLOWED_DOMAINS = AllowedDomainsOf(ALLOWED_DOMAINS_ENV)
    /\ StartupAccepts(ALLOWED_DOMAINS)
    /\ TURNSTILE_SECRET_KEY \in SecretKeys
    /\ RECAPTCHA_SECRET_KEY \in SecretKeys
    /\ captcha_provider = CaptchaProviderOf(TURNSTILE_SECRET_KEY, RECAPTCHA_SECRET_KEY)
    /\ forms_db = FORMS_DB
    /\ frames = <<>>
    /\ listing = <<>>
    /\ form_id \in FormIds
    /\ submission \in Submissions(form_id)
    /\ header_origin \in HeaderOrigins
    /\ call = [form_id |-> form_id, submission |-> submission,
               header_origin |-> header_origin]
    /\ pc = "origin"
    /\ origin = <<>>
    /\ guard = NoGuard
    /\ is_valid = PyFalse
    /\ verify_response = NoResponse
    /\ rendered = NoMessage
    /\ smtp_outcome = "none"
    /\ steps = <<>>
    /\ verify_requests = <<>>
    /\ send_calls = 0
    /\ mails = <<>>
    /\ log = <<>>
    /\ outcome = NoOutcome

\* NextStep with the registry lookup ahead of the CAPTCHA gate
NextStep_LookupFirst(step) ==
    CASE step = "origin"  -> "lookup"
      [] step = "lookup"  -> "captcha"
      [] step = "captcha" -> "fields"
      [] step = "fields"  -> "render"
      [] step = "render"  -> "send"

\* the order of the handler's statements: the step control falls through to
\* when a step raises nothing (lines 272, 277, 291, 297, 302, 306)
NextStep(step) ==
    CASE step = "origin"  -> "captcha"
      [] step = "captcha" -> "lookup"
      [] step = "lookup"  -> "fields"
      [] step = "fields"  -> "render"
      [] step = "render"  -> "send"

\* raise HTTPException(status_code, detail), or the return of line 308
Respond(status, detail, field) ==
    /\ outcome' = [status |-> status, detail |-> detail, field |-> field]
    /\ pc' = "done"

\* ResolveOrigin that prefers the Origin header to the declared origin
ResolveOrigin_HeaderFirst(sub, header) ==
    IF header # <<>> THEN header
    ELSE IF sub.origin # <<>> THEN sub.origin[1] ELSE <<>>

\* line 272: submission.origin or request.headers.get("origin", "")
ResolveOrigin(sub, header) == IF Truthy(sub.origin) THEN sub.origin[1] ELSE header

\* OriginRejected that lets every origin through
OriginRejected_Never(checked) == FALSE

\* line 273: `if not is_domain_allowed(origin)`
OriginRejected(checked) == ~checked.result

\* lines 272-274
CheckOrigin ==
    /\ pc = "origin"
    /\ origin' = ResolveOrigin(submission, header_origin)
    /\ guard' = is_domain_allowed(origin', ALLOWED_DOMAINS)
    /\ log' = Append(log, guard'.logged)
    /\ steps' = Append(steps, "origin")
    /\ IF OriginRejected(guard')
       THEN Respond(403, "Origin not allowed", "")
       ELSE pc' = NextStep("origin") /\ UNCHANGED outcome
    /\ UNCHANGED <<config, others, request, is_valid, verify_response, rendered, smtp_outcome,
                   verify_requests, send_calls, mails>>

\* TokenSupplied as `is not None`: the empty token counts as supplied
TokenSupplied_NotNone(token) == token # <<>>

\* line 277: `if submission.captcha_token`
TokenSupplied(token) == Truthy(token)

\* TokenRequired whatever the configuration
TokenRequired_Always(provider) == TRUE

\* line 286: `elif captcha_provider`
TokenRequired(provider) == provider # <<>>

\* VerificationFailed that never rejects
VerificationFailed_Never(valid) == FALSE

\* VerificationFailed as `is_valid is False`
VerificationFailed_IsFalse(valid) == valid = PyFalse

\* line 284: `if not is_valid`
VerificationFailed(valid) == ~PyTruthy(valid)

\* the URL a verifier posts to: verify_turnstile at line 170, verify_recaptcha
\* at line 194
EndpointOf(verifier) ==
    IF verifier = "turnstile"
    THEN "https://challenges.cloudflare.com/turnstile/validate"
    ELSE "https://www.google.com/recaptcha/api/siteverify"

\* lines 277-288, up to the request of the verifier (lines 169 and 193)
CaptchaGate ==
    /\ pc = "captcha"
    /\ steps' = Append(steps, "captcha")
    /\ IF TokenSupplied(submission.captcha_token)
       THEN /\ is_valid' = PyFalse
            /\ IF /\ captcha_provider \in {<<"turnstile">>, <<"recaptcha">>}
                  /\ ~VerifySkips(SecretKeyOf(captcha_provider[1], TURNSTILE_SECRET_KEY,
                                              RECAPTCHA_SECRET_KEY),
                                  submission.captcha_token)
               THEN \* the verifier sends its request and the handler awaits it
                    /\ verify_requests' =
                           Append(verify_requests, EndpointOf(captcha_provider[1]))
                    /\ pc' = "verify"
                    /\ UNCHANGED outcome
               ELSE \* no provider, or the verifier returned False at once
                    /\ IF VerificationFailed(is_valid')
                       THEN Respond(403, "CAPTCHA verification failed", "")
                       ELSE pc' = NextStep("captcha") /\ UNCHANGED outcome
                    /\ UNCHANGED verify_requests
       ELSE /\ IF TokenRequired(captcha_provider)
               THEN Respond(400, "CAPTCHA token required", "")
               ELSE pc' = NextStep("captcha") /\ UNCHANGED outcome
            /\ UNCHANGED <<is_valid, verify_requests>>
    /\ UNCHANGED <<config, others, request, origin, guard, verify_response, rendered,
                   smtp_outcome, send_calls, mails, log>>

\* the verifier's request ends (lines 177-185, 201-209) and the handler
\* resumes at lines 284-285
VerifyReturn ==
    /\ pc = "verify"
    /\ \E response \in VerifyResponses :
          /\ verify_response' = response
          /\ is_valid' = VerifyResult(response)
          /\ log' = log \o VerifyLogged(captcha_provider[1], response)
    /\ IF VerificationFailed(is_valid')
       THEN Respond(403, "CAPTCHA verification failed", "")
       ELSE pc' = NextStep("captcha") /\ UNCHANGED outcome
    /\ UNCHANGED <<config, others, request, origin, guard, rendered, smtp_outcome, steps,
                   verify_requests, send_calls, mails>>

\* LookupForm answering an unknown form with 400 instead of 404
LookupForm_BadRequest ==
    /\ pc = "lookup"
    /\ steps' = Append(steps, "lookup")
    /\ IF form_id \notin DOMAIN forms_db
       THEN Respond(400, "Form not found", "")
       ELSE pc' = NextStep("lookup") /\ UNCHANGED outcome
    /\ UNCHANGED <<config, others, request, origin, guard, is_valid, verify_response, rendered,
                   smtp_outcome, verify_requests, send_calls, mails, log>>

\* lines 291-294
LookupForm ==
    /\ pc = "lookup"
    /\ steps' = Append(steps, "lookup")
    /\ IF form_id \notin DOMAIN forms_db
       THEN Respond(404, "Form not found", "")
       ELSE pc' = NextStep("lookup") /\ UNCHANGED outcome
    /\ UNCHANGED <<config, others, request, origin, guard, is_valid, verify_response, rendered,
                   smtp_outcome, verify_requests, send_calls, mails, log>>

\* FirstMissing without the fail-fast: the last absent field
FirstMissing_Last(fields, data) ==
    LET absent == {i \in 1..Len(fields) : fields[i] \notin DOMAIN data}
    IN  IF absent = {} THEN <<>>
        ELSE <<fields[CHOOSE i \in absent : \A j \in absent : j <= i]>>

\* lines 297-299: the field the loop stops at, <<>> when it runs through
RECURSIVE FirstMissing(_, _)
FirstMissing(fields, data) ==
    IF fields = <<>> THEN <<>>
    ELSE IF Head(fields) \notin DOMAIN data THEN <<Head(fields)>>
    ELSE FirstMissing(Tail(fields), data)

\* lines 297-299
CheckFields ==
    /\ pc = "fields"
    /\ steps' = Append(steps, "fields")
    /\ LET missing == FirstMissing(forms_db[form_id].fields, submission.data)
       IN  IF missing # <<>>
           THEN Respond(400, "Missing required field: ", missing[1])
           ELSE pc' = NextStep("fields") /\ UNCHANGED outcome
    /\ UNCHANGED <<config, others, request, origin, guard, is_valid, verify_response, rendered,
                   smtp_outcome, verify_requests, send_calls, mails, log>>

\* lines 302-303; an exception of get_email_template leaves the handler, and
\* the framework answers 500
Render ==
    /\ pc = "render"
    /\ steps' = Append(steps, "render")
    /\ LET message == get_email_template(forms_db[form_id].template, submission.data)
       IN  IF message.raised
           THEN Respond(500, "Internal Server Error", "") /\ UNCHANGED rendered
           ELSE rendered' = message /\ pc' = NextStep("render") /\ UNCHANGED outcome
    /\ UNCHANGED <<config, others, request, origin, guard, is_valid, verify_response,
                   smtp_outcome, verify_requests, send_calls, mails, log>>

\* DispatchFailureDetail that lets send_email's own HTTPException through
DispatchFailureDetail_Reraised(sent) == sent.detail

\* lines 312-314: whatever send_email raised, the handler raises its own
\* HTTPException
DispatchFailureDetail(sent) == "Submission failed"

\* lines 305-314, with the call of send_email
Dispatch ==
    /\ pc = "send"
    /\ steps' = Append(steps, "send")
    /\ send_calls' = send_calls + 1
    /\ \E smtp \in SmtpOutcomes :
          LET sent == send_email(forms_db[form_id].recipients, rendered.subject,
                                 rendered.body, smtp)
          IN  /\ smtp_outcome' = smtp
              /\ mails' = mails \o sent.accepted
              /\ IF sent.raised
                 THEN /\ log' = log \o <<sent.logged, "error: Submission error">>
                      /\ Respond(500, DispatchFailureDetail(sent), "")
                 ELSE /\ log' = log \o <<sent.logged, "info: Form submitted successfully">>
                      /\ Respond(200, "Form submitted successfully", "")
    /\ UNCHANGED <<config, others, request, origin, guard, is_valid, verify_response, rendered,
                   verify_requests>>

\* lines 306 and 148-152: smtplib.SMTP is built without a timeout, so the
\* socket blocks; a relay that stops answering leaves send_email, and the
\* handler that called it, waiting for ever
RelayHangs ==
    /\ pc = "send"
    /\ steps' = Append(steps, "send")
    /\ send_calls' = send_calls + 1
    /\ smtp_outcome' = "no_response"
    /\ pc' = "blocked"
    /\ UNCHANGED <<config, others, request, origin, guard, is_valid, verify_response,
                   rendered, verify_requests, mails, log, outcome>>

Next ==
    \/ CheckOrigin
    \/ CaptchaGate
    \/ VerifyReturn
    \/ LookupForm
    \/ CheckFields
    \/ Render
    \/ Dispatch
    \/ RelayHangs

Spec == Init /\ [][Next]_vars

-----------------------------------------------------------------------------
(* Concurrent requests: several submit_form calls in flight on the event    *)
(* loop, and list_forms calls served from the thread pool.  Each call of    *)
(* the coroutine has its own frame (its arguments and locals); the module   *)
(* globals, the logger and the outside world are shared.  The event loop    *)
(* runs one handler at a time and changes handler only where the running    *)
(* one awaits (line 280, inside the verifier) or has responded.             *)

\* the frame of the running handler
RunningFrame ==
    [call |-> call, form_id |-> form_id, submission |-> submission,
     header_origin |-> header_origin, pc |-> pc, origin |-> origin, guard |-> guard,
     is_valid |-> is_valid, verify_response |-> verify_response, rendered |-> rendered,
     smtp_outcome |-> smtp_outcome, steps |-> steps, outcome |-> outcome]

\* the frame of a call that has not started to run
NewFrame(fid, sub, header) ==
    [call |-> [form_id |-> fid, submission |-> sub, header_origin |-> header],
     form_id |-> fid, submission |-> sub, header_origin |-> header, pc |-> "origin",
     origin |-> <<>>, guard |-> NoGuard, is_valid |-> PyFalse,
     verify_response |-> NoResponse, rendered |-> NoMessage, smtp_outcome |-> "none",
     steps |-> <<>>, outcome |-> NoOutcome]

\* every field of the registry with the value "hi"
FullData == [k \in AllFields |-> PyStr(<<"h", "i">>)]

\* the token "tok"
Tok == << <<"t", "o", "k">> >>

ConcCall(fid, d, t, h) ==
    NewFrame(fid, [form_id |-> fid, data |-> d, captcha_token |-> t, origin |-> <<>>], h)

\* the concurrent requests, as the frames of their calls: a newsletter
\* subscription without a token and a support request with a token
ConcFrames ==
    { ConcCall("newsletter", FullData, <<>>, GoodOrigin),
      ConcCall("support", FullData, Tok, GoodOrigin) }

ConcInit ==
    /\ ALLOWED_DOMAINS_ENV = PipelineDomainsEnv
    /\ ALLOWED_DOMAINS = AllowedDomainsOf(ALLOWED_DOMAINS_ENV)
    /\ StartupAccepts(ALLOWED_DOMAINS)
    /\ TURNSTILE_SECRET_KEY \in SecretKeys
    /\ RECAPTCHA_SECRET_KEY = <<>>
    /\ captcha_provider = CaptchaProviderOf(TURNSTILE_SECRET_KEY, RECAPTCHA_SECRET_KEY)
    /\ forms_db = FORMS_DB
    /\ listing = <<>>
    /\ frames \in [1..(MaxInFlight - 1) -> ConcFrames]
    /\ \E f \in ConcFrames :
          /\ call = f.call
          /\ form_id = f.form_id
          /\ submission = f.submission
          /\ header_origin = f.header_origin
    /\ pc = "origin"
    /\ origin = <<>>
    /\ guard = NoGuard
    /\ is_valid = PyFalse
    /\ verify_response = NoResponse
    /\ rendered = NoMessage
    /\ smtp_outcome = "none"
    /\ steps = <<>>
    /\ verify_requests = <<>>
    /\ send_calls = 0
    /\ mails = <<>>
    /\ log = <<>>
    /\ outcome = NoOutcome

\* Switch where the submission is a module global instead of an argument of
\* the call: the handler that resumes finds the submission of the one that
\* ran last
Switch_SharedSubmission(k) ==
    /\ pc \in {"verify", "done"}
    /\ k \in 1..Len(frames)
    /\ frames[k].pc # "done"
    /\ frames' = [frames EXCEPT ![k] = RunningFrame]
    /\ call' = frames[k].call
    /\ form_id' = frames[k].form_id
    /\ header_origin' = frames[k].header_origin
    /\ pc' = frames[k].pc
    /\ origin' = frames[k].origin
    /\ guard' = frames[k].guard
    /\ is_valid' = frames[k].is_valid
    /\ verify_response' = frames[k].verify_response
    /\ rendered' = frames[k].rendered
    /\ smtp_outcome' = frames[k].smtp_outcome
    /\ steps' = frames[k].steps
    /\ outcome' = frames[k].outcome
    /\ UNCHANGED <<config, submission, listing, verify_requests, send_calls, mails, log>>

\* lines 269-270 and 280: the running coroutine awaits the verifier or has
\* responded, and the event loop runs the k-th of the other calls, whose
\* frame holds its own arguments and locals
Switch(k) ==
    /\ pc \in {"verify", "done"}
    /\ k \in 1..Len(frames)
    /\ frames[k].pc # "done"
    /\ frames' = [frames EXCEPT ![k] = RunningFrame]
    /\ call' = frames[k].call
    /\ form_id' = frames[k].form_id
    /\ submission' = frames[k].submission
    /\ header_origin' = frames[k].header_origin
    /\ pc' = frames[k].pc
    /\ origin' = frames[k].origin
    /\ guard' = frames[k].guard
    /\ is_valid' = frames[k].is_valid
    /\ verify_response' = frames[k].verify_response
    /\ rendered' = frames[k].rendered
    /\ smtp_outcome' = frames[k].smtp_outcome
    /\ steps' = frames[k].steps
    /\ outcome' = frames[k].outcome
    /\ UNCHANGED <<config, listing, verify_requests, send_calls, mails, log>>

\* lines 245-251: the dict list_forms builds from FORMS_DB
ListingOf(db) == [f \in DOMAIN db |-> [name |-> db[f].name, fields |-> db[f].fields]]

\* list_forms, lines 243-251
ListForms ==
    /\ listing' = ListingOf(forms_db)
    /\ UNCHANGED <<config, frames, call, request, pc, origin, guard, is_valid,
                   verify_response, rendered, smtp_outcome, steps, verify_requests,
                   send_calls, mails, log, outcome>>

ConcNext ==
    \/ Next
    \/ \E k \in 1..(MaxInFlight - 1) : Switch(k)
    \/ ListForms

ConcSpec == ConcInit /\ [][ConcNext]_vars

-----------------------------------------------------------------------------
(* The origin guard alone: is_domain_allowed applied to one origin string   *)
(* under one allow-list configuration that the startup check accepts.       *)

\* all sequences over S of length at most n
RECURSIVE SeqsUpTo(_, _)
SeqsUpTo(S, n) ==
    IF n = 0 THEN {<<>>}
    ELSE LET shorter == SeqsUpTo(S, n - 1)
         IN  shorter \cup {Append(s, c) : s \in shorter, c \in S}

HostChars == {"a", "b", "A", "."}

\* "", "//", "s:", "s://", "S://u@" and "s://["
OriginPrefixes ==
    { <<>>,
      <<"/", "/">>,
      <<"s", ":">>,
      <<"s", ":", "/", "/">>,
      <<"S", ":", "/", "/", "u", "@">>,
      <<"s", ":", "/", "/", "[">> }

\* "", ":8" and "/p"
OriginSuffixes == { <<>>, <<":", "8">>, <<"/", "p">> }

\* the origin strings: a prefix, a host part and a suffix
GuardOrigins ==
    {p \o h \o x : p \in OriginPrefixes, h \in SeqsUpTo(HostChars, MaxHostLen),
                   x \in OriginSuffixes}

\* values of the ALLOWED_DOMAINS environment variable: "a", "B,a", "a,",
\* " a , b.a", "" (unset) and ",a"
AllowedDomainsEnvs ==
    { <<"a">>,
      <<"B", ",", "a">>,
      <<"a", ",">>,
      <<" ", "a", " ", ",", " ", "b", ".", "a">>,
      <<>>,
      <<",", "a">> }

NoSubmission ==
    [form_id |-> "", data |-> <<>>, captcha_token |-> <<>>, origin |-> <<>>]

GuardInit ==
    /\ ALLOWED_DOMAINS_ENV \in AllowedDomainsEnvs
    /\ ALLOWED_DOMAINS = AllowedDomainsOf(ALLOWED_DOMAINS_ENV)
    /\ StartupAccepts(ALLOWED_DOMAINS)
    /\ origin \in GuardOrigins
    /\ pc = "guard_call"
    /\ guard = NoGuard
    /\ TURNSTILE_SECRET_KEY = <<>>
    /\ RECAPTCHA_SECRET_KEY = <<>>
    /\ captcha_provider = <<>>
    /\ forms_db = FORMS_DB
    /\ frames = <<>>
    /\ listing = <<>>
    /\ form_id = ""
    /\ submission = NoSubmission
    /\ header_origin = <<>>
    /\ call = [form_id |-> form_id, submission |-> submission,
               header_origin |-> header_origin]
    /\ is_valid = PyFalse
    /\ verify_response = NoResponse
    /\ rendered = NoMessage
    /\ smtp_outcome = "none"
    /\ steps = <<>>
    /\ verify_requests = <<>>
    /\ send_calls = 0
    /\ mails = <<>>
    /\ log = <<>>
    /\ outcome = NoOutcome

\* one call of is_domain_allowed(origin)
GuardCall ==
    /\ pc = "guard_call"
    /\ guard' = is_domain_allowed(origin, ALLOWED_DOMAINS)
    /\ log' = Append(log, guard'.logged)
    /\ pc' = "guard_done"
    /\ UNCHANGED <<config, others, request, origin, is_valid, verify_response, rendered,
                   smtp_outcome, steps, verify_requests, send_calls, mails, outcome>>

GuardNext == GuardCall

GuardSpec == GuardInit /\ [][GuardNext]_vars

-----------------------------------------------------------------------------
(* Properties of the origin guard. *)

\* x and y are the same string when case is ignored
SameIgnoringCase(x, y) ==
    /\ Len(x) = Len(y)
    /\ \A i \in 1..Len(x) : LowerChar(x[i]) = LowerChar(y[i])

\* h is p + "." + d for some string p, when case is ignored
DotSuffix(h, d) ==
    \E k \in 1..Len(h) : h[k] = "." /\ SameIgnoringCase(From(h, k + 1), d)

\* h equals an allow-listed domain or ends with "." and one
OnAllowList(h, domains) ==
    \E i \in 1..Len(domains) : SameIgnoringCase(h, domains[i]) \/ DotSuffix(h, domains[i])

\* C3: for the hostname that is_domain_allowed extracts from the origin, the
\* call returns true iff, ignoring case, the hostname equals an allow-listed
\* domain or ends with "." followed by one; the empty origin, and an origin
\* no hostname is extracted from, is rejected.
C3_AllowedIffDomainOrSubdomain ==
    pc = "guard_done" =>
        /\ guard.hostname # <<>> =>
              (guard.result <=> OnAllowList(guard.hostname[1], ALLOWED_DOMAINS))
        /\ guard.hostname = <<>> => ~guard.result
        /\ origin = <<>> => ~guard.result /\ guard.hostname = <<>>

\* C3 witness: the hostname "ba" only ends with the allow-listed "a", without
\* the dot boundary, and has been rejected.
C3_Witness ==
    /\ pc = "guard_done"
    /\ ALLOWED_DOMAINS = << <<"a">> >>
    /\ origin = <<"s", ":", "/", "/", "b", "A", ":", "8">>
    /\ guard.hostname = << <<"b", "a">> >>
    /\ ~guard.result

\* urlparse finds no host in the origin (or cannot parse it)
NoHostIn(o) == urlparse(o).raised \/ urlparse(o).hostname = <<>>

\* C4: under every allow-list the startup check accepts, an origin from which
\* no hostname can be extracted is not allowed, and the call returns a boolean
\* without raising.
C4_NoHostNotAllowed ==
    pc = "guard_done" =>
        /\ guard.result \in BOOLEAN
        /\ ~guard.raised
        /\ NoHostIn(origin) => guard.result = FALSE

-----------------------------------------------------------------------------
(* Properties of the submission pipeline. *)

Done == pc = "done"

Reached(step) == step \in Range(steps)

Token == submission.captcha_token

\* the submission went past the CAPTCHA gate the way the gate allows
PassedCaptchaGate ==
    IF Truthy(Token)
    THEN captcha_provider # <<>> /\ Len(verify_requests) = 1 /\ PyTruthy(is_valid)
    ELSE captcha_provider = <<>>

\* every required field of the form is a key of the data
AllFieldsPresent ==
    /\ form_id \in DOMAIN FORMS_DB
    /\ \A f \in Range(FORMS_DB[form_id].fields) : f \in DOMAIN submission.data

\* the pipeline ended at the origin, CAPTCHA, lookup or field-presence step
RejectedBeforeDispatch == Done /\ outcome.status \in {400, 403, 404}

\* C1: send_email is attempted only for a submission whose resolved origin
\* was allowed, that passed the CAPTCHA gate, whose form is registered and whose
\* data holds every required field; a submission rejected at one of these
\* steps makes no mail dispatch attempt.
C1_DispatchOnlyAfterAllChecks ==
    /\ (send_calls > 0 \/ pc = "send") =>
          /\ Reached("origin") /\ guard.result
          /\ origin = ResolveOrigin(submission, header_origin)
          /\ PassedCaptchaGate
          /\ AllFieldsPresent
    /\ RejectedBeforeDispatch => send_calls = 0 /\ ~Reached("send") /\ mails = <<>>

\* C1 witness: a support submission with a verified token has been dispatched.
C1_Witness ==
    /\ Done
    /\ send_calls = 1
    /\ form_id = "support"
    /\ Truthy(Token)
    /\ captcha_provider = <<"recaptcha">>

\* C2: when the pipeline ends with a failure outcome, at whatever step, the
\* relay has accepted no message.
C2_FailureMeansNoMailSent ==
    (Done /\ outcome.status # 200) => mails = <<>>

\* C5: with a provider configured, an allowed origin and no token (None or
\* ""), the pipeline answers 400 "CAPTCHA token required" and no verification
\* request is ever sent.
C5_MissingTokenRejectedWithoutRequest ==
    (captcha_provider # <<>> /\ ~Truthy(Token)) =>
        /\ verify_requests = <<>>
        /\ pc # "verify"
        /\ (Done /\ guard.result) =>
              /\ outcome = [status |-> 400, detail |-> "CAPTCHA token required",
                            field |-> ""]
              /\ ~Reached("lookup")

\* C5 witness: the empty token under reCAPTCHA has been answered 400.
C5_Witness ==
    /\ Done
    /\ captcha_provider = <<"recaptcha">>
    /\ Token = << <<>> >>
    /\ guard.result
    /\ outcome.status = 400
    /\ verify_requests = <<>>

\* the provider did not answer with a usable success: a transport error, a
\* status other than 200, a body that is no JSON object, an object without
\* "success", or success: false
ProviderReportedFailure ==
    \/ verify_response.error
    \/ verify_response.status_code # 200
    \/ verify_response.body # "object"
    \/ verify_response.success = <<>>
    \/ verify_response.success = <<PyFalse>>

Verified == verify_requests # <<>> /\ pc # "verify"

\* C7: the verifier yields a passing result only for a 200 response whose
\* JSON object has success equal to the boolean true; every other response
\* yields false, and the result is always a boolean.
C7_PassOnlyOnBooleanTrue ==
    Verified =>
        /\ is_valid \in {PyTrue, PyFalse}
        /\ PyTruthy(is_valid) <=>
              /\ ~verify_response.error
              /\ verify_response.status_code = 200
              /\ verify_response.body = "object"
              /\ verify_response.success = <<PyTrue>>

\* C8: with no provider configured, an allowed origin and no token, the
\* pipeline goes past the CAPTCHA gate to form lookup, and no verification
\* request is made.
C8_NoProviderNoTokenProceeds ==
    (captcha_provider = <<>> /\ ~Truthy(Token)) =>
        /\ verify_requests = <<>>
        /\ pc # "verify"
        /\ (Done /\ guard.result) =>
              /\ Reached("lookup")
              /\ outcome.detail \notin {"CAPTCHA token required",
                                        "CAPTCHA verification failed"}
        /\ (Reached("captcha") /\ ~Done) =>
              pc \in {"lookup", "fields", "render", "send", "blocked"}

\* C8 witness: such a submission went on to form lookup and was sent.
C8_Witness ==
    /\ Done
    /\ captcha_provider = <<>>
    /\ Token = <<>>
    /\ guard.result
    /\ Reached("lookup")
    /\ outcome.status = 200

\* the positions of the form's required fields that are no key of the data
AbsentFields ==
    {i \in 1..Len(FORMS_DB[form_id].fields) :
        FORMS_DB[form_id].fields[i] \notin DOMAIN submission.data}

\* C9: for a registered form that got to the field check, when required
\* fields are absent the pipeline answers 400 naming the first absent field in
\* the declared order, whichever later fields are absent too; a field that is
\* a key of the data counts as present whatever its value.
C9_FirstAbsentFieldNamed ==
    (Done /\ Reached("fields")) =>
        IF AbsentFields # {}
        THEN outcome =
               [status |-> 400, detail |-> "Missing required field: ",
                field |-> FORMS_DB[form_id].fields[
                             CHOOSE i \in AbsentFields : \A j \in AbsentFields : i <= j]]
        ELSE Reached("render") /\ outcome.status # 400

\* C9 witness: the contact form without "email" and "service_type" was
\* answered with "email".
C9_Witness ==
    /\ Done
    /\ form_id = "contact"
    /\ DOMAIN submission.data = AllFields \ {"email", "service_type"}
    /\ outcome.status = 400
    /\ outcome.field = "email"

\* the subject the form's template gives for the data
TemplateSubject ==
    CASE FORMS_DB[form_id].template = "newsletter" ->
            [text |-> "New Newsletter Subscriber", arg |-> <<>>]
      [] FORMS_DB[form_id].template = "contact" ->
            [text |-> "New Contact: ", arg |-> submission.data["service_type"].v]
      [] FORMS_DB[form_id].template = "support" ->
            [text |-> "Support Ticket - ", arg |-> StrUpper(submission.data["priority"].v)]

\* C10: send_email is invoked at most once per pipeline run; a run that ends
\* in success has made exactly one dispatch, of one message addressed to the
\* form's recipients with the subject of the form's template; and a run whose
\* mail send succeeds ends in success.
C10_SuccessAfterExactlyOneDispatch ==
    /\ send_calls <= 1
    /\ Len(mails) <= send_calls
    /\ (Done /\ outcome.status = 200) =>
          /\ send_calls = 1
          /\ Len(mails) = 1
          /\ mails[1].to = FORMS_DB[form_id].recipients
          /\ mails[1].subject = TemplateSubject
    /\ (Done /\ smtp_outcome = "ok") =>
          outcome = [status |-> 200, detail |-> "Form submitted successfully",
                     field |-> ""]

\* C10 witness: the newsletter form, no provider, no token: one mail to the
\* newsletter recipients with the newsletter subject.
C10_Witness ==
    /\ Done
    /\ form_id = "newsletter"
    /\ captcha_provider = <<>>
    /\ Token = <<>>
    /\ outcome.status = 200
    /\ mails = << [to |-> <<"newsletter@h190k.com">>,
                   subject |-> [text |-> "New Newsletter Subscriber", arg |-> <<>>],
                   body |-> rendered.body] >>

-----------------------------------------------------------------------------
(* The pipeline's rejections. *)

NotFound == [status |-> 404, detail |-> "Form not found", field |-> ""]

\* C11 as stated: a submission whose form_id is not registered ends with 404
\* FormNotFound whatever its data, its captcha_token and its origin are.
C11_UnknownFormAlwaysNotFound ==
    (Done /\ form_id \notin DOMAIN FORMS_DB) => outcome = NotFound

\* C11, amended: a submission whose form_id is not registered and that passes
\* the origin check and the CAPTCHA gate ends with 404 FormNotFound whatever
\* its data is, and no mail is dispatched; one that fails the origin check or
\* the CAPTCHA gate ends with that step's 403 or 400 before the lookup.
C11_UnknownFormNotFoundAfterGate ==
    (Done /\ form_id \notin DOMAIN FORMS_DB) =>
        /\ send_calls = 0
        /\ IF guard.result /\ PassedCaptchaGate
           THEN outcome = NotFound
           ELSE outcome.status \in {400, 403} /\ ~Reached("lookup")

\* C11 witness: an unregistered form with a verified token and a full data
\* map was answered 404.
C11_Witness ==
    /\ Done
    /\ form_id = "unknown"
    /\ Truthy(Token)
    /\ PyTruthy(is_valid)
    /\ DOMAIN submission.data = AllFields
    /\ outcome = NotFound

\* C12: for a registered form, rendering never fails: every data map that
\* passed the field-presence check is rendered into a subject and a body, and
\* the pipeline goes on to the mail dispatch.
C12_RenderNeverFails ==
    Reached("render") =>
        /\ rendered # NoMessage
        /\ pc = "send" \/ Reached("send")

\* send_email ended with an exception: AuthenticationFailed or TransportFailed
DispatchFailed == smtp_outcome \in SmtpOutcomes \ {"ok"}

\* C13: every failure of the mail dispatch, an authentication failure as well
\* as any other, reaches the caller as HTTP 500 with one and the same fixed
\* message, which holds none of the exception's text.
C13_DispatchFailureIsOpaque ==
    (Done /\ DispatchFailed) =>
        outcome = [status |-> 500, detail |-> "Submission failed", field |-> ""]

\* C13 witness: the relay refused the login, and the caller was answered 500.
C13_Witness ==
    /\ Done
    /\ smtp_outcome = "auth_error"
    /\ outcome.status = 500
    /\ mails = <<>>

\* the logger.info records: "Domain allowed", "Email sent", "Form submitted"
InfoRecords == {"info", "info: Email sent", "info: Form submitted successfully"}

\* the six rejection outcomes of the pipeline
Rejections ==
    {"Origin not allowed", "CAPTCHA token required", "CAPTCHA verification failed",
     "Form not found", "Missing required field: ", "Submission failed"}

\* C14: every rejection outcome (OriginForbidden, CaptchaRequired,
\* CaptchaFailed, FormNotFound, MissingField, MailDispatchFailed) comes with a
\* warning or error record that the server logged before it returned the error.
C14_RejectionIsLogged ==
    (Done /\ outcome.detail \in Rejections) =>
        \E i \in 1..Len(log) : log[i] \notin InfoRecords

\* the handler is at a statement it can execute: the guards of the actions
\* of Next
CanStep == pc \in {"origin", "captcha", "verify", "lookup", "fields", "render", "send"}

\* C15: every pipeline execution reaches a terminal outcome, also when the
\* CAPTCHA provider or the mail relay never answers: a handler that has not
\* responded yet always has a step to take, so that neither outbound call
\* leaves it waiting for ever.
C15_RespondsOrCanStep == Done \/ CanStep

-----------------------------------------------------------------------------
(* The CAPTCHA provider and the origin that is evaluated. *)

\* a secret key is configured: the environment variable is set and not empty
Configured(key) == key # <<>> /\ key[1] # <<>>

\* C17: the CAPTCHA provider is fixed by the configuration and is the same in
\* every state of a request: Turnstile when both secrets are configured, the
\* configured one when exactly one is, none when neither is; and a request
\* only ever calls the endpoint of that provider.
C17_ProviderFixedAtStartup ==
    /\ (Configured(TURNSTILE_SECRET_KEY) /\ Configured(RECAPTCHA_SECRET_KEY)) =>
          captcha_provider = <<"turnstile">>
    /\ (Configured(TURNSTILE_SECRET_KEY) /\ ~Configured(RECAPTCHA_SECRET_KEY)) =>
          captcha_provider = <<"turnstile">>
    /\ (~Configured(TURNSTILE_SECRET_KEY) /\ Configured(RECAPTCHA_SECRET_KEY)) =>
          captcha_provider = <<"recaptcha">>
    /\ (~Configured(TURNSTILE_SECRET_KEY) /\ ~Configured(RECAPTCHA_SECRET_KEY)) =>
          captcha_provider = <<>>
    /\ \A i \in 1..Len(verify_requests) :
          /\ captcha_provider # <<>>
          /\ captcha_provider = <<"turnstile">> =>
                verify_requests[i] = "https://challenges.cloudflare.com/turnstile/validate"
          /\ captcha_provider = <<"recaptcha">> =>
                verify_requests[i] = "https://www.google.com/recaptcha/api/siteverify"

\* C17 witness: with both secrets configured, a token was verified with one
\* request to Turnstile.
C17_Witness ==
    /\ Done
    /\ Configured(TURNSTILE_SECRET_KEY)
    /\ Configured(RECAPTCHA_SECRET_KEY)
    /\ verify_requests = <<"https://challenges.cloudflare.com/turnstile/validate">>
    /\ outcome.status = 200

\* the submission declares an origin: the field is present and not empty
DeclaresOrigin == submission.origin # <<>> /\ submission.origin[1] # <<>>

\* C19: the origin the guard evaluates is the submission's declared origin
\* whenever that field is present and not empty, whatever the Origin header
\* says; the header is used only when the declared origin is missing or
\* empty; when both are missing or empty the request is rejected with 403.
C19_DeclaredOriginFirst ==
    Reached("origin") =>
        /\ DeclaresOrigin => origin = submission.origin[1]
        /\ ~DeclaresOrigin => origin = header_origin
        /\ guard = is_domain_allowed(origin, ALLOWED_DOMAINS)
        /\ ~guard.result =>
              outcome = [status |-> 403, detail |-> "Origin not allowed", field |-> ""]
        /\ (~DeclaresOrigin /\ header_origin = <<>>) => ~guard.result

\* C19 witness: the declared origin is not allowed while the header's is, and
\* the request was rejected on the declared one.
C19_Witness ==
    /\ Done
    /\ submission.origin = <<EvilOrigin>>
    /\ header_origin = GoodOrigin
    /\ origin = EvilOrigin
    /\ outcome.status = 403

CaptchaFailed == [status |-> 403, detail |-> "CAPTCHA verification failed", field |-> ""]

\* C20 as stated: with no CAPTCHA provider configured, a submission with a
\* non-empty captcha_token always ends with 403 CaptchaFailed.
C20_UnverifiableTokenAlwaysCaptchaFailed ==
    (Done /\ captcha_provider = <<>> /\ Truthy(Token)) => outcome = CaptchaFailed

\* C20, amended: with no CAPTCHA provider configured, a submission with a
\* non-empty captcha_token is rejected with 403 CaptchaFailed when its origin
\* is allowed, and with 403 OriginForbidden otherwise; in both cases no
\* verification request is made and neither form lookup nor mail dispatch is
\* reached.
C20_UnverifiableTokenRejected ==
    (captcha_provider = <<>> /\ Truthy(Token)) =>
        /\ verify_requests = <<>>
        /\ ~Reached("lookup")
        /\ send_calls = 0
        /\ pc \in {"origin", "captcha", "done"}
        /\ Done => IF guard.result
                   THEN outcome = CaptchaFailed
                   ELSE outcome = [status |-> 403, detail |-> "Origin not allowed",
                                   field |-> ""]

\* C20 witness: a token nobody can verify, from an allowed origin, was
\* rejected at the gate.
C20_Witness ==
    /\ Done
    /\ captcha_provider = <<>>
    /\ Truthy(Token)
    /\ guard.result
    /\ steps = <<"origin", "captcha">>
    /\ outcome = CaptchaFailed

-----------------------------------------------------------------------------
(* The order of the pipeline, and what one request's outcome has to be. *)

\* the fixed order of the pipeline's steps
StepOrder == <<"origin", "captcha", "lookup", "fields", "render", "send">>

\* the guard's verdicts on the origins of the pipeline's requests under the
\* pipeline's allow-list, computed once
PipelineVerdicts ==
    [o \in {<<>>, GoodOrigin, EvilOrigin} |->
        is_domain_allowed(o, AllowedDomainsOf(PipelineDomainsEnv)).result]

\* is_domain_allowed(o) under the allow-list in force
OriginAllowed(o) ==
    IF ALLOWED_DOMAINS = AllowedDomainsOf(PipelineDomainsEnv) /\ o \in DOMAIN PipelineVerdicts
    THEN PipelineVerdicts[o]
    ELSE is_domain_allowed(o, ALLOWED_DOMAINS).result

\* the earliest step of StepOrder that fails for a request (form id,
\* submission, Origin header) given what the CAPTCHA provider answered and
\* what the relay did; "none" when no step fails
FailingStep(fid, sub, header, response, smtp) ==
    LET declared == sub.origin # <<>> /\ sub.origin[1] # <<>>
        evaluated == IF declared THEN sub.origin[1] ELSE header
        token == sub.captcha_token # <<>> /\ sub.captcha_token[1] # <<>>
    IN  IF ~OriginAllowed(evaluated) THEN "origin"
        ELSE IF token /\ (captcha_provider = <<>> \/ ~PyTruthy(VerifyResult(response)))
        THEN "captcha"
        ELSE IF ~token /\ captcha_provider # <<>> THEN "captcha"
        ELSE IF fid \notin DOMAIN FORMS_DB THEN "lookup"
        ELSE IF \E f \in Range(FORMS_DB[fid].fields) : f \notin DOMAIN sub.data
        THEN "fields"
        ELSE IF get_email_template(FORMS_DB[fid].template, sub.data).raised THEN "render"
        ELSE IF smtp \notin {"none", "ok"} THEN "send"
        ELSE "none"

\* the response that belongs to a failing step, and to none failing
OutcomeOf(failing, fid, sub) ==
    CASE failing = "origin" ->
            [status |-> 403, detail |-> "Origin not allowed", field |-> ""]
      [] failing = "captcha" ->
            IF sub.captcha_token # <<>> /\ sub.captcha_token[1] # <<>>
            THEN [status |-> 403, detail |-> "CAPTCHA verification failed", field |-> ""]
            ELSE [status |-> 400, detail |-> "CAPTCHA token required", field |-> ""]
      [] failing = "lookup" ->
            [status |-> 404, detail |-> "Form not found", field |-> ""]
      [] failing = "fields" ->
            [status |-> 400, detail |-> "Missing required field: ",
             field |-> FirstMissing(FORMS_DB[fid].fields, sub.data)[1]]
      [] failing = "render" ->
            [status |-> 500, detail |-> "Internal Server Error", field |-> ""]
      [] failing = "send" ->
            [status |-> 500, detail |-> "Submission failed", field |-> ""]
      [] failing = "none" ->
            [status |-> 200, detail |-> "Form submitted successfully", field |-> ""]

\* the steps of StepOrder up to and including the given one; all for "none"
RECURSIVE StepsThrough(_, _)
StepsThrough(order, last) ==
    IF order = <<>> THEN <<>>
    ELSE IF Head(order) = last THEN <<last>>
    ELSE <<Head(order)>> \o StepsThrough(Tail(order), last)

IsPrefix(s, t) == Len(s) <= Len(t) /\ \A i \in 1..Len(s) : s[i] = t[i]

\* C18: the checks run in the fixed order origin, CAPTCHA gate, lookup, field
\* presence, render, dispatch; the error reported is that of the earliest
\* failing step, and no step after that one is executed.
C18_EarliestFailingStepReported ==
    LET failing == FailingStep(form_id, submission, header_origin, verify_response,
                               smtp_outcome)
    IN  /\ IsPrefix(steps, StepsThrough(StepOrder, failing))
        /\ Done => /\ steps = StepsThrough(StepOrder, failing)
                   /\ outcome = OutcomeOf(failing, form_id, submission)

\* C18 witness: a submission without the required token, for an unregistered
\* form and with fields missing, was answered with the CAPTCHA gate's error,
\* and nothing after the gate ran.
C18_Witness ==
    /\ Done
    /\ captcha_provider # <<>>
    /\ Token = <<>>
    /\ form_id = "unknown"
    /\ DOMAIN submission.data # AllFields
    /\ steps = <<"origin", "captcha">>
    /\ outcome.detail = "CAPTCHA token required"

-----------------------------------------------------------------------------
(* Concurrent requests. *)

\* the frames of all the calls in flight, the running one included
AllFrames == {RunningFrame} \cup Range(frames)

\* the outcome the call of a frame has when it runs alone: that of the
\* earliest failing step for the arguments it was called with, given what the
\* provider answered to it and what the relay did with its message
AloneOutcome(f) ==
    OutcomeOf(FailingStep(f.call.form_id, f.call.submission, f.call.header_origin,
                          f.verify_response, f.smtp_outcome),
              f.call.form_id, f.call.submission)

\* C16: under every interleaving of concurrent submissions and list_forms
\* calls, FORMS_DB, ALLOWED_DOMAINS and captcha_provider keep their startup
\* values, every handler keeps working on the arguments it was called with,
\* every submission's outcome is the one it has when it runs alone, and
\* list_forms returns the registry as it was at startup.
C16_RequestsDoNotInterfere ==
    /\ forms_db = FORMS_DB
    /\ ALLOWED_DOMAINS = AllowedDomainsOf(ALLOWED_DOMAINS_ENV)
    /\ captcha_provider = CaptchaProviderOf(TURNSTILE_SECRET_KEY, RECAPTCHA_SECRET_KEY)
    /\ listing \in {<<>>, ListingOf(FORMS_DB)}
    /\ \A f \in AllFrames :
          /\ f.form_id = f.call.form_id
          /\ f.submission = f.call.submission
          /\ f.header_origin = f.call.header_origin
          /\ f.pc = "done" => f.outcome = AloneOutcome(f)

\* C16 witness: while a support request is suspended in its verification
\* request, a newsletter subscription has run from start to end and has been
\* answered 400, and list_forms has been served.
C16_Witness ==
    /\ Done
    /\ form_id = "newsletter"
    /\ outcome.status = 400
    /\ Len(frames) > 0
    /\ frames[1].pc = "verify"
    /\ frames[1].form_id = "support"
    /\ Len(verify_requests) = 1
    /\ listing = ListingOf(FORMS_DB)

====
